---------------------------- MODULE Spec2Model ----------------------------
(***************************************************************************)
(* A model of carrotson: a fixed-order (8 byte) Markov model over bytes.   *)
(*   src/carrotson.rs  sparse Freq (Vec<(u8,u32)>), Schema A persistence,  *)
(*                     train / gen / stats subcommands                     *)
(*   src/main.rs       dense Freq ([u16; 256]) with saturation and aging   *)
(*                                                                         *)
(* A u64 is an 8-tuple of bytes, most significant first; a u32 is a        *)
(* 4-tuple of bytes, most significant first.  TLC's integers are 32 bit    *)
(* signed, so 64 bit words are never built as numbers.  Counts (u32, u16,  *)
(* usize) are numbers: every run keeps them far below 2^31.                *)
(***************************************************************************)
EXTENDS Integers, Sequences, FiniteSets, Bags, TLC

VARIABLES
    variant,    \* "sparse" (carrotson.rs) or "dense" (main.rs) Freq
    bytes,      \* Slicer.bytes
    window,     \* Slicer.window
    cursor,     \* Slicer.cursor
    model,      \* Model.model : context -> Freq.tokens
    freq,       \* Freq.tokens of one table driven on its own
    file,       \* the bytes of the model file
    lcg,        \* LCG.state
    context,    \* main: let mut context
    buffer,     \* main: let mut buffer
    limit,      \* main: limit / LIMIT
    pc,         \* position in main
    item,       \* what Slicer::next returned last: Option<(u64, u8)>
    ret,        \* what Freq::random returned last: Option<u8>
    loaded,     \* what Model::read_from returned: io::Result<Model>
    emitted,    \* history: the pairs Slicer::next has returned
    pushes,     \* history: how many times each byte was pushed into freq
    calls       \* history: how many calls of the operation under study were made

vars == <<variant, bytes, window, cursor, model, freq, file, lcg, context,
          buffer, limit, pc, item, ret, loaded, emitted, pushes, calls>>

---------------------------------------------------------------------------
(* Machine words                                                           *)

Byte == 0..255

U16_MAX == 65535

\* Option: None, Some(x)
None == <<>>
Some(x) == <<x>>

\* 0u64
Zero64 == <<0, 0, 0, 0, 0, 0, 0, 0>>

\* n as u64, for 0 <= n < 2^31
U64(n) ==
    <<0, 0, 0, 0, (n \div 16777216) % 256, (n \div 65536) % 256,
      (n \div 256) % 256, n % 256>>

\* the k-th byte of a u64 counted from the least significant one
LoByte(u, k) == u[8 - k]

\* (c << 8) | (x as u64): the top byte falls off the 64 bit word
Shl8Or(c, x) == <<c[2], c[3], c[4], c[5], c[6], c[7], c[8], x>>

\* a * b mod 2^64 (overflowing_mul), schoolbook on bytes
WrappingMul(a, b) ==
    LET col(k) ==
            LET F[i \in 0..k] ==
                    LoByte(a, i) * LoByte(b, k - i) + IF i = 0 THEN 0 ELSE F[i - 1]
            IN  F[k]
        acc[k \in 0..7] == col(k) + IF k = 0 THEN 0 ELSE acc[k - 1] \div 256
    IN  [j \in 1..8 |-> acc[8 - j] % 256]

\* a + b mod 2^64 (overflowing_add)
WrappingAdd(a, b) ==
    LET acc[k \in 0..7] ==
            LoByte(a, k) + LoByte(b, k) + IF k = 0 THEN 0 ELSE acc[k - 1] \div 256
    IN  [j \in 1..8 |-> acc[8 - j] % 256]

\* (r as usize) % m for a u32 r and 0 < m < 2^23
ModU32(r, m) ==
    ((((((r[1] % m) * 256 + r[2]) % m) * 256 + r[3]) % m) * 256 + r[4]) % m

---------------------------------------------------------------------------
(* LCG                                                                     *)

RAND_A == <<88, 81, 244, 45, 76, 149, 127, 45>>     \* 6364136223846793005
RAND_C == <<20, 5, 123, 126, 247, 103, 129, 79>>    \* 1442695040888963407

\* LCG::random_u32: the state after the call
LcgStep(state) == WrappingAdd(WrappingMul(state, RAND_A), RAND_C)

\* LCG::random_u32: the value returned, (state >> 32) as u32 of the new state
LcgOut(state) == LET s == LcgStep(state) IN <<s[1], s[2], s[3], s[4]>>

---------------------------------------------------------------------------
(* Freq, dense (main.rs): tokens : [u16; 256]                              *)

DenseNew == [i \in Byte |-> 0]

DensePushLeaky(tokens, x) ==
    [i \in Byte |->
        IF i = x THEN (IF tokens[x] < U16_MAX THEN tokens[x] + 1 ELSE tokens[x])
        ELSE IF tokens[i] > 0 THEN tokens[i] - 1 ELSE tokens[i]]

DensePushWrap(tokens, x) ==
    [tokens EXCEPT ![x] = (tokens[x] + 1) % (U16_MAX + 1)]

\* Freq::push
DensePush(tokens, x) ==
    IF tokens[x] < U16_MAX
    THEN [tokens EXCEPT ![x] = tokens[x] + 1]
    ELSE [i \in Byte |->
            IF i # x /\ tokens[i] > 0 THEN tokens[i] - 1 ELSE tokens[i]]

\* the table as a bag: each byte as many times as its counter says
DenseBag(tokens) == [i \in {j \in Byte : tokens[j] > 0} |-> tokens[i]]

\* `for t in self.tokens.iter() { sum += *t as usize }`: the zero counters
\* add nothing, the others add up to the size of the bag
DenseSum(tokens) == BagCardinality(DenseBag(tokens))


\* Loops over a table are split in halves: the scan, or the sum, of entries
\* lo..hi is that of lo..mid followed by that of mid+1..hi.

\* F applied to the value of e, which is worked out once however often F
\* uses it
Bind(e, F(_)) == CHOOSE out \in {F(v) : v \in {e}} : TRUE

RECURSIVE DenseScanRangeGe(_, _, _, _, _)
DenseScanRangeGe(tokens, lo, hi, psum, index) ==
    IF lo = hi
    THEN LET p == psum + tokens[lo]
         IN  IF p >= index THEN [hit |-> Some(lo), psum |-> p]
             ELSE [hit |-> None, psum |-> p]
    ELSE Bind((lo + hi) \div 2, LAMBDA mid :
         Bind(DenseScanRangeGe(tokens, lo, mid, psum, index), LAMBDA l :
              IF l.hit # None THEN l
              ELSE DenseScanRangeGe(tokens, mid + 1, hi, l.psum, index)))

\* Freq::random, the scan `for i in 0..self.tokens.len()` over entries
\* lo..hi entered with psum: the byte returned (hit) or, with no return,
\* the psum it leaves
RECURSIVE DenseScanRange(_, _, _, _, _)
DenseScanRange(tokens, lo, hi, psum, index) ==
    IF lo = hi
    THEN LET p == psum + tokens[lo]
         IN  IF p > index THEN [hit |-> Some(lo), psum |-> p]
             ELSE [hit |-> None, psum |-> p]
    ELSE Bind((lo + hi) \div 2, LAMBDA mid :
         Bind(DenseScanRange(tokens, lo, mid, psum, index), LAMBDA l :
              IF l.hit # None THEN l
              ELSE DenseScanRange(tokens, mid + 1, hi, l.psum, index)))

---------------------------------------------------------------------------
(* Freq, sparse (carrotson.rs): tokens : Vec<(u8, u32)>                    *)

SparseNew == <<>>

\* Freq::push
SparsePush(tokens, x) ==
    LET hit == {i \in 1..Len(tokens) : tokens[i][1] = x}
    IN  IF hit # {}
        THEN LET i == CHOOSE j \in hit : \A k \in hit : j <= k
             IN  [tokens EXCEPT ![i] = <<x, tokens[i][2] + 1>>]
        ELSE Append(tokens, <<x, 1>>)

\* self.tokens.iter().map(|(_, p)| *p as usize).sum() over entries lo..hi
RECURSIVE SparseSumRange(_, _, _)
SparseSumRange(tokens, lo, hi) ==
    IF lo > hi THEN 0
    ELSE IF lo = hi THEN tokens[lo][2]
    ELSE LET mid == (lo + hi) \div 2
         IN  SparseSumRange(tokens, lo, mid) + SparseSumRange(tokens, mid + 1, hi)

SparseSum(tokens) == SparseSumRange(tokens, 1, Len(tokens))

RECURSIVE SparseScanRangeGe(_, _, _, _, _)
SparseScanRangeGe(tokens, lo, hi, psum, index) ==
    IF lo > hi THEN [hit |-> None, psum |-> psum]
    ELSE IF lo = hi
    THEN LET p == psum + tokens[lo][2]
         IN  IF p >= index THEN [hit |-> Some(tokens[lo][1]), psum |-> p]
             ELSE [hit |-> None, psum |-> p]
    ELSE Bind((lo + hi) \div 2, LAMBDA mid :
         Bind(SparseScanRangeGe(tokens, lo, mid, psum, index), LAMBDA l :
              IF l.hit # None THEN l
              ELSE SparseScanRangeGe(tokens, mid + 1, hi, l.psum, index)))

\* Freq::random, the scan `for (y, p) in self.tokens.iter()` over entries
\* lo..hi entered with psum: the byte returned (hit) or, with no return,
\* the psum it leaves
RECURSIVE SparseScanRange(_, _, _, _, _)
SparseScanRange(tokens, lo, hi, psum, index) ==
    IF lo > hi THEN [hit |-> None, psum |-> psum]
    ELSE IF lo = hi
    THEN LET p == psum + tokens[lo][2]
         IN  IF p > index THEN [hit |-> Some(tokens[lo][1]), psum |-> p]
             ELSE [hit |-> None, psum |-> p]
    ELSE Bind((lo + hi) \div 2, LAMBDA mid :
         Bind(SparseScanRange(tokens, lo, mid, psum, index), LAMBDA l :
              IF l.hit # None THEN l
              ELSE SparseScanRange(tokens, mid + 1, hi, l.psum, index)))

\* Freq::branching
SparseBranching(tokens) == Len(tokens)

---------------------------------------------------------------------------
(* Freq, either representation                                             *)

FreqNew(v) == IF v = "sparse" THEN SparseNew ELSE DenseNew

FreqPush(v, tokens, x) ==
    IF v = "sparse" THEN SparsePush(tokens, x) ELSE DensePush(tokens, x)

FreqSum(v, tokens) ==
    IF v = "sparse" THEN SparseSum(tokens) ELSE DenseSum(tokens)

\* the count stored for byte x
FreqCount(v, tokens, x) ==
    IF v = "sparse"
    THEN SparseSum(SelectSeq(tokens, LAMBDA e : e[1] = x))
    ELSE tokens[x]

\* Freq::random, the whole scan: Some(byte), or None when it runs out
FreqScan(v, tokens, index) ==
    IF v = "sparse" THEN SparseScanRange(tokens, 1, Len(tokens), 0, index).hit
    ELSE DenseScanRange(tokens, 0, 255, 0, index).hit

\* Freq::random: the value returned and the LCG state it leaves; the LCG is
\* drawn from only when sum > 0
FreqRandom(v, tokens, state) ==
    Bind(FreqSum(v, tokens), LAMBDA sum :
         IF sum > 0
         THEN Bind(ModU32(LcgOut(state), sum), LAMBDA index :
                   [val   |-> FreqScan(v, tokens, index),
                    state |-> LcgStep(state)])
         ELSE [val |-> None, state |-> state])

---------------------------------------------------------------------------
(* Model: HashMap<u64, Freq>, a function from the contexts it holds        *)

ModelNew == [c \in {} |-> <<>>]

\* HashMap::insert
Insert(m, c, f) == (c :> f) @@ m

ModelPushNoCount(v, m, c, next) ==
    IF c \in DOMAIN m
    THEN [m EXCEPT ![c] = FreqPush(v, @, next)]
    ELSE Insert(m, c, FreqNew(v))

\* Model::push
ModelPush(v, m, c, next) ==
    IF c \in DOMAIN m
    THEN [m EXCEPT ![c] = FreqPush(v, @, next)]
    ELSE Insert(m, c, FreqPush(v, FreqNew(v), next))

\* Model::random
ModelRandom(v, m, c, state) ==
    IF c \in DOMAIN m
    THEN FreqRandom(v, m[c], state)
    ELSE [val |-> None, state |-> state]

\* the sum of all stored counts over all contexts and all byte values
RECURSIVE SumOver(_, _, _)
SumOver(v, m, cs) ==
    IF cs = {} THEN 0
    ELSE LET c == CHOOSE k \in cs : TRUE
         IN  FreqSum(v, m[c]) + SumOver(v, m, cs \ {c})

ModelTotal(v, m) == SumOver(v, m, DOMAIN m)

---------------------------------------------------------------------------
(* Slicer and context_push                                                 *)

SlicerItemAfter(w, next) == <<Shl8Or(w, next), next>>

\* Slicer::next: the item returned, Some((result, next)) with result the
\* window before the update
SlicerItem(w, next) == <<w, next>>

\* Slicer::next: self.window = (self.window<<8)|(next as u64)
SlicerWindow(w, next) == Shl8Or(w, next)

\* context_push
ContextPush(c, x) == Shl8Or(c, x)

---------------------------------------------------------------------------
(* Schema A (carrotson.rs): write_to and read_from                         *)

\* u64::to_le_bytes
U64ToLe(u) == <<u[8], u[7], u[6], u[5], u[4], u[3], u[2], u[1]>>

\* u32::to_le_bytes of a count below 2^31
U32ToLe(p) ==
    <<p % 256, (p \div 256) % 256, (p \div 65536) % 256, (p \div 16777216) % 256>>

\* u32::from_le_bytes; a value of 2^31 or more is kept as its four bytes
U32FromLe(b) ==
    IF b[4] < 128
    THEN b[1] + 256 * b[2] + 65536 * b[3] + 16777216 * b[4]
    ELSE <<"u32", b[4], b[3], b[2], b[1]>>

\* the concatenation of the byte strings ss[lo..hi]
RECURSIVE ConcatRange(_, _, _)
ConcatRange(ss, lo, hi) ==
    IF lo > hi THEN <<>>
    ELSE IF lo = hi THEN ss[lo]
    ELSE LET mid == (lo + hi) \div 2
         IN  ConcatRange(ss, lo, mid) \o ConcatRange(ss, mid + 1, hi)

Concat(ss) == ConcatRange(ss, 1, Len(ss))

\* Freq::write_to: the entry count is written `as u8`
FreqWriteTo(tokens) ==
    <<Len(tokens) % 256>>
        \o Concat([i \in 1..Len(tokens) |-> <<tokens[i][1]>> \o U32ToLe(tokens[i][2])])

\* Model::write_to, the HashMap iterated in the order `order` of its keys
ModelWriteTo(m, order) ==
    U64ToLe(U64(Cardinality(DOMAIN m)))
        \o Concat([i \in 1..Len(order) |->
                      U64ToLe(order[i]) \o FreqWriteTo(m[order[i]])])

\* io::Result: Err(UnexpectedEof)
Err == [ok |-> FALSE]

\* read_exact of k bytes at offset pos of f
ReadExact(f, pos, k) ==
    IF pos + k > Len(f) THEN Err
    ELSE [ok |-> TRUE, val |-> SubSeq(f, pos + 1, pos + k), pos |-> pos + k]

\* read_u8
ReadU8(f, pos) ==
    LET r == ReadExact(f, pos, 1)
    IN  IF r.ok THEN [r EXCEPT !.val = r.val[1]] ELSE Err

\* read_u32
ReadU32(f, pos) ==
    LET r == ReadExact(f, pos, 4)
    IN  IF r.ok THEN [r EXCEPT !.val = U32FromLe(r.val)] ELSE Err

\* read_u64: the value as a u64
ReadU64(f, pos) ==
    LET r == ReadExact(f, pos, 8)
    IN  IF r.ok
        THEN [r EXCEPT !.val = <<r.val[8], r.val[7], r.val[6], r.val[5],
                                 r.val[4], r.val[3], r.val[2], r.val[1]>>]
        ELSE Err

\* The read loops are split in halves too: n rounds from offset pos are
\* n \div 2 rounds, then the rest from the offset those leave; a failed
\* round ends the loop with Err (the `?`).

\* Freq::read_from, n rounds of the loop `for _ in 0..count` from offset
\* pos: the entries pushed and the offset left
RECURSIVE FreqReadEntries(_, _, _)
FreqReadEntries(f, pos, n) ==
    IF n = 0 THEN [ok |-> TRUE, val |-> <<>>, pos |-> pos]
    ELSE IF n = 1
    THEN LET x == ReadU8(f, pos)
         IN  IF ~x.ok THEN Err
             ELSE LET p == ReadU32(f, x.pos)
                  IN  IF ~p.ok THEN Err
                      ELSE [ok |-> TRUE, val |-> <<<<x.val, p.val>>>>, pos |-> p.pos]
    ELSE LET l == FreqReadEntries(f, pos, n \div 2)
         IN  IF ~l.ok THEN Err
             ELSE LET r == FreqReadEntries(f, l.pos, n - n \div 2)
                  IN  IF ~r.ok THEN Err
                      ELSE [ok |-> TRUE, val |-> l.val \o r.val, pos |-> r.pos]

\* Freq::read_from
FreqReadFrom(f, pos) ==
    LET count == ReadU8(f, pos)
    IN  IF ~count.ok THEN Err
        ELSE FreqReadEntries(f, count.pos, count.val)

\* Model::read_from, n rounds of the loop `for _ in 0..count` from offset
\* pos: the entries inserted (a later insert of a context replaces an
\* earlier one) and the offset left.  A round reads 9 bytes or more, so
\* more rounds than the file has bytes left end in Err.
RECURSIVE ModelReadEntries(_, _, _)
ModelReadEntries(f, pos, n) ==
    IF n = 0 THEN [ok |-> TRUE, val |-> ModelNew, pos |-> pos]
    ELSE IF n > Len(f) - pos THEN Err
    ELSE IF n = 1
    THEN LET c == ReadU64(f, pos)
         IN  IF ~c.ok THEN Err
             ELSE LET fr == FreqReadFrom(f, c.pos)
                  IN  IF ~fr.ok THEN Err
                      ELSE [ok |-> TRUE, val |-> Insert(ModelNew, c.val, fr.val),
                            pos |-> fr.pos]
    ELSE LET l == ModelReadEntries(f, pos, n \div 2)
         IN  IF ~l.ok THEN Err
             ELSE LET r == ModelReadEntries(f, l.pos, n - n \div 2)
                  IN  IF ~r.ok THEN Err
                      ELSE [ok |-> TRUE, val |-> r.val @@ l.val, pos |-> r.pos]

\* a u64 count as a number; a count of 2^24 or more stands for more rounds
\* than any file of the runs has bytes
CountOf(u) ==
    IF u[1] = 0 /\ u[2] = 0 /\ u[3] = 0 /\ u[4] = 0 /\ u[5] = 0
    THEN u[6] * 65536 + u[7] * 256 + u[8]
    ELSE 16777216

\* Model::read_from
ModelReadFrom(f) ==
    LET count == ReadU64(f, 0)
    IN  IF ~count.ok THEN Err
        ELSE LET r == ModelReadEntries(f, count.pos, CountOf(count.val))
             IN  IF r.ok THEN [ok |-> TRUE, val |-> r.val] ELSE Err

---------------------------------------------------------------------------
(* Parts of the state a specification does not use                         *)

NoSlicer ==
    bytes = <<>> /\ window = Zero64 /\ cursor = 0 /\ item = None /\ emitted = <<>>
NoModel  == model = ModelNew
NoFreq   == freq = <<>> /\ pushes = <<>>
NoFile   == file = <<>> /\ loaded = Err
NoGen    ==
    lcg = Zero64 /\ context = Zero64 /\ buffer = <<>> /\ limit = 0 /\ ret = None

---------------------------------------------------------------------------
(* SpecDense: one dense table (main.rs) pushed into from all zeros         *)

DenseBytes == {0, 255}
MaxLight == 1
MaxHeavy == 65537

InitDense ==
    /\ variant = "dense"
    /\ freq = DenseNew
    /\ pushes = [b \in DenseBytes |-> 0]
    /\ pc = "push" /\ calls = 0
    /\ NoSlicer /\ NoModel /\ NoFile /\ NoGen

\* freq.push(x).  The runs explored push at most one byte more than
\* MaxLight times, and no byte more than MaxHeavy times.
PushDense(x) ==
    /\ pushes[x] < MaxHeavy
    /\ \/ pushes[x] < MaxLight
       \/ \A y \in DenseBytes \ {x} : pushes[y] <= MaxLight
    /\ freq' = DensePush(freq, x)
    /\ pushes' = [pushes EXCEPT ![x] = @ + 1]
    /\ calls' = calls + 1
    /\ UNCHANGED <<variant, bytes, window, cursor, model, file, lcg, context,
                   buffer, limit, pc, item, ret, loaded, emitted>>

NextDense == \E x \in DenseBytes : PushDense(x)

SpecDense == InitDense /\ [][NextDense]_vars

Min(a, b) == IF a < b THEN a ELSE b

\* C6: every counter of a dense table stays in 0..65535, and a table that
\* received k pushes, all of the same byte b, holds min(k, 65535) for b and
\* 0 for every other byte.
C6_DenseSaturation ==
    /\ freq \in [Byte -> 0..U16_MAX]
    /\ \A b \in DenseBytes :
          (\A y \in DenseBytes \ {b} : pushes[y] = 0)
          => freq = [i \in Byte |->
                        IF i = b THEN Min(pushes[b], U16_MAX) ELSE 0]

\* 65536 pushes of byte 255 and none of another byte
C6_Witness ==
    /\ pushes[255] = U16_MAX + 1
    /\ pushes[0] = 0
    /\ freq[255] = U16_MAX

\* C9: a push of x into a dense table whose counter x is 65535 leaves that
\* counter, takes 1 off every other nonzero counter and leaves the zero
\* counters; a push of x whose counter is below 65535 adds 1 to it and
\* leaves every other counter.
C9_DenseAging ==
    [][\A x \in DenseBytes :
          pushes'[x] = pushes[x] + 1 =>
              IF freq[x] = U16_MAX
              THEN freq' = [i \in Byte |->
                              IF i = x THEN freq[x]
                              ELSE IF freq[i] > 0 THEN freq[i] - 1 ELSE 0]
              ELSE freq' = [freq EXCEPT ![x] = freq[x] + 1]]_vars

\* an aging step was taken: byte 0 is saturated and the one push of byte
\* 255 has been taken back
C9_Witness ==
    /\ freq[0] = U16_MAX
    /\ pushes[0] > U16_MAX
    /\ pushes[255] = 1
    /\ freq[255] = 0


---------------------------------------------------------------------------
(* Slicer::next as a step                                                  *)

\* Slicer::next with a byte left: returns Some((result, next))
SlicerSome ==
    /\ cursor < Len(bytes)
    /\ item' = Some(SlicerItem(window, bytes[cursor + 1]))
    /\ window' = SlicerWindow(window, bytes[cursor + 1])
    /\ cursor' = cursor + 1

\* Slicer::next with no byte left: returns None
SlicerNone ==
    /\ cursor >= Len(bytes)
    /\ item' = None
    /\ UNCHANGED <<window, cursor>>

\* the byte strings over S of length at most n
SeqsUpTo(S, n) == UNION {[1..k -> S] : k \in 0..n}

---------------------------------------------------------------------------
(* SpecSlicer: Slicer::next called again and again on one input            *)

SlicerBytes == {0, 255}
MaxSlice == 10
MaxExtraCalls == 2

InitSlicer ==
    /\ variant = "sparse"
    /\ bytes \in SeqsUpTo(SlicerBytes, MaxSlice)
    /\ window = Zero64 /\ cursor = 0 /\ item = None /\ emitted = <<>>
    /\ pc = "slice" /\ calls = 0
    /\ NoModel /\ NoFreq /\ NoFile /\ NoGen

NextItem ==
    /\ SlicerSome
    /\ emitted' = Append(emitted, item'[1])
    /\ calls' = calls + 1
    /\ UNCHANGED <<variant, bytes, model, freq, file, lcg, context, buffer,
                   limit, pc, ret, loaded, pushes>>

NextNone ==
    /\ calls < Len(bytes) + MaxExtraCalls
    /\ SlicerNone
    /\ calls' = calls + 1
    /\ UNCHANGED <<variant, bytes, model, freq, file, lcg, context, buffer,
                   limit, pc, ret, loaded, emitted, pushes>>

NextSlicer == NextItem \/ NextNone

SpecSlicer == InitSlicer /\ [][NextSlicer]_vars

Max(a, b) == IF a > b THEN a ELSE b

\* the big-endian packing of at most 8 bytes into a 64 bit word
PackBE(s) ==
    [j \in 1..8 |-> IF j <= 8 - Len(s) THEN 0 ELSE s[j - (8 - Len(s))]]

\* C3: Slicer emits exactly length(s) pairs and then only None; the pair
\* for the byte at index i (from 0) is (c_i, s[i]) with c_i the big-endian
\* packing of the last min(i, 8) bytes before it.
C3_SlicerPairs ==
    /\ Len(emitted) = Min(calls, Len(bytes))
    /\ \A i \in 1..Len(emitted) :
          emitted[i] = <<PackBE(SubSeq(bytes, Max(1, i - 8), i - 1)), bytes[i]>>
    /\ calls > Len(bytes) => item = None
    /\ calls \in 1..Len(bytes) => item = Some(emitted[calls])

\* ten bytes sliced, the first of them nonzero and gone from the last
\* context, and one call more
C3_Witness ==
    /\ Len(bytes) = 10
    /\ bytes[1] = 255
    /\ Len(emitted) = 10
    /\ emitted[10][1] = PackBE(SubSeq(bytes, 2, 9))
    /\ calls = 11
    /\ item = None


---------------------------------------------------------------------------
(* SpecFreq: one table of either kind, pushed into and then drawn from     *)

Variants == {"sparse", "dense"}
FreqBytes == {0, 2, 255}
MaxFileEntries == 2
MaxFileCount == 1
MaxFreqSum == 3
MaxSeed == 3
MaxDraws == 2

\* the seeds of the runs: LCG::new(seed)
Seeds == {U64(n) : n \in 0..MaxSeed}

\* the sparse tables Freq::read_from returns for the files of at most
\* MaxFileEntries entries, with counts up to MaxFileCount (a file may hold a
\* zero count, or a byte twice)
LoadedTables ==
    {FreqReadFrom(FreqWriteTo(t), 0).val :
        t \in SeqsUpTo(FreqBytes \X (0..MaxFileCount), MaxFileEntries)}

InitFreq ==
    /\ variant \in Variants
    /\ freq \in IF variant = "sparse" THEN LoadedTables ELSE {DenseNew}
    /\ pushes = <<>>
    /\ lcg \in Seeds
    /\ context = Zero64 /\ buffer = <<>> /\ limit = 0 /\ ret = None
    /\ pc = "push" /\ calls = 0
    /\ NoSlicer /\ NoModel /\ NoFile

\* freq.push(x), while the table holds fewer than MaxFreqSum observations
PushFreq(x) ==
    /\ pc = "push"
    /\ FreqSum(variant, freq) < MaxFreqSum
    /\ freq' = FreqPush(variant, freq, x)
    /\ UNCHANGED <<variant, bytes, window, cursor, model, file, lcg, context,
                   buffer, limit, pc, item, ret, loaded, emitted, pushes, calls>>

\* freq.random(&mut lcg)
RandomFreq ==
    /\ calls < MaxDraws
    /\ LET r == FreqRandom(variant, freq, lcg)
       IN  ret' = r.val /\ lcg' = r.state
    /\ pc' = "random"
    /\ calls' = calls + 1
    /\ UNCHANGED <<variant, bytes, window, cursor, model, freq, file, context,
                   buffer, limit, item, loaded, emitted, pushes>>

NextFreq == (\E x \in FreqBytes : PushFreq(x)) \/ RandomFreq

SpecFreq == InitFreq /\ [][NextFreq]_vars

\* the entries of a table in scan order, as (byte, count) pairs
Entries(v, tokens) ==
    IF v = "sparse" THEN tokens ELSE [i \in 1..256 |-> <<i - 1, tokens[i - 1]>>]

\* the cumulative count of the first k entries
Cum(e, k) == SparseSumRange(e, 1, k)

\* C7: Freq::random on a table whose counts sum to total > 0 returns, for the
\* draw r, the byte of the first entry in scan order whose cumulative count
\* exceeds r mod total; so an entry of count 0 is never returned, and a table
\* with one nonzero entry returns that entry's byte.  (With total = 0 it
\* returns None.)
C7_RandomRule ==
    pc = "random" =>
        LET e == Entries(variant, freq)
            total == Cum(e, Len(e))
            index == ModU32(<<lcg[1], lcg[2], lcg[3], lcg[4]>>, total)
            over == {k \in 1..Len(e) : Cum(e, k) > index}
            first == CHOOSE k \in over : \A j \in over : k <= j
            nonzero == {k \in 1..Len(e) : e[k][2] > 0}
        IN  IF total = 0 THEN ret = None
            ELSE /\ over # {}
                 /\ ret = Some(e[first][1])
                 /\ e[first][2] > 0
                 /\ Cardinality(nonzero) = 1 =>
                        \A k \in nonzero : ret = Some(e[k][1])

\* a draw from a sparse table that passed over the first entry and returned
\* the byte of the second
C7_Witness ==
    /\ pc = "random"
    /\ variant = "sparse"
    /\ Len(freq) = 2
    /\ freq[1][2] > 0
    /\ freq[1][1] # freq[2][1]
    /\ ret = Some(freq[2][1])


---------------------------------------------------------------------------
(* SpecTrain: the training loop `for (context, next) in Slicer::new(bytes)  *)
(* { model.push(context, next) }` (carrotson.rs 307-309, main.rs 177-179).  *)
(* The loop takes one byte at a time, so the state after cursor rounds is   *)
(* the state it ends in on the input bytes[0..cursor].                      *)

TrainBytes == {0, 1, 255}
MaxHead == 4
MaxZeros == 65537

InitTrain ==
    /\ variant \in Variants
    /\ bytes \in SeqsUpTo(TrainBytes, MaxHead)
    /\ window = Zero64 /\ cursor = 0 /\ item = None /\ emitted = <<>>
    /\ model = ModelNew
    /\ pc = "train" /\ calls = 0
    /\ NoFreq /\ NoFile /\ NoGen

\* one round of the loop
TrainStep ==
    /\ pc = "train"
    /\ SlicerSome
    /\ emitted' = Append(emitted, item'[1])
    /\ model' = ModelPush(variant, model, item'[1][1], item'[1][2])
    /\ UNCHANGED <<variant, bytes, freq, file, lcg, context, buffer, limit,
                   pc, ret, loaded, pushes, calls>>

\* one round of the loop on the input of MaxZeros zero bytes, which is not
\* kept in `bytes` (empty in these runs), nor its pairs in `emitted`
ZeroStep ==
    /\ pc = "train"
    /\ bytes = <<>>
    /\ cursor < MaxZeros
    /\ item' = Some(SlicerItem(window, 0))
    /\ window' = SlicerWindow(window, 0)
    /\ cursor' = cursor + 1
    /\ model' = ModelPush(variant, model, item'[1][1], item'[1][2])
    /\ UNCHANGED <<variant, bytes, freq, file, lcg, context, buffer, limit,
                   pc, ret, loaded, emitted, pushes, calls>>

NextTrain == TrainStep \/ ZeroStep

SpecTrain == InitTrain /\ [][NextTrain]_vars

\* C2 as claimed: for either kind of table, the stored counts sum to the
\* number of bytes trained on.
C2_TotalIsLength == ModelTotal(variant, model) = cursor

\* C2, amended: the stored counts of the sparse tables sum to the number of
\* bytes trained on; those of the dense tables sum to at most that, and to
\* exactly that while no more than 65535 bytes were trained on.
C2_TotalAmended ==
    LET total == ModelTotal(variant, model)
    IN  /\ variant = "sparse" => total = cursor
        /\ variant = "dense" =>
              /\ total <= cursor
              /\ cursor <= U16_MAX => total = cursor

\* 65536 zero bytes trained into dense tables, which hold 65535
C2_Witness ==
    /\ variant = "dense"
    /\ cursor = U16_MAX + 1
    /\ ModelTotal(variant, model) = U16_MAX


---------------------------------------------------------------------------
(* SpecGen: train on an input, then generate (main.rs 172-207; in          *)
(* carrotson.rs the model passes through the file between the two)         *)

GenBytes == {0, 255}
MaxTrainLen == 4
MaxLimit == 3

LimitReachedLate(buf, lim) == Len(buf) > lim

LimitReachedEarly(buf, lim) == Len(buf) + 1 >= lim

\* `if buffer.len() >= limit { break }`
LimitReached(buf, lim) == Len(buf) >= lim

InitGen ==
    /\ variant \in Variants
    /\ bytes \in SeqsUpTo(GenBytes, MaxTrainLen)
    /\ window = Zero64 /\ cursor = 0 /\ item = None /\ emitted = <<>>
    /\ model = ModelNew
    /\ lcg \in Seeds
    /\ limit \in 0..MaxLimit
    /\ context = Zero64 /\ buffer = <<>> /\ ret = None
    /\ pc = "train" /\ calls = 0
    /\ NoFreq /\ NoFile

\* the training loop ends: Slicer::next returns None
TrainDone ==
    /\ pc = "train"
    /\ SlicerNone
    /\ pc' = "trained"
    /\ UNCHANGED <<variant, bytes, model, freq, file, lcg, context, buffer,
                   limit, ret, loaded, emitted, pushes, calls>>

\* `let mut context = 0; let mut buffer = Vec::new();`
GenStart ==
    /\ pc = "trained"
    /\ context' = Zero64
    /\ buffer' = <<>>
    /\ pc' = "gen"
    /\ UNCHANGED <<variant, bytes, window, cursor, model, freq, file, lcg,
                   limit, item, ret, loaded, emitted, pushes, calls>>

\* one round of `while let Some(x) = model.random(context, &mut lcg)`
GenStep ==
    /\ pc = "gen"
    /\ \E r \in {ModelRandom(variant, model, context, lcg)} :
           /\ ret' = r.val
           /\ lcg' = r.state
           /\ IF r.val = None \/ LimitReached(buffer, limit)
              THEN pc' = "done" /\ UNCHANGED <<buffer, context>>
              ELSE /\ buffer' = Append(buffer, r.val[1])
                   /\ context' = ContextPush(context, r.val[1])
                   /\ pc' = "gen"
    /\ calls' = calls + 1
    /\ UNCHANGED <<variant, bytes, window, cursor, model, freq, file, limit,
                   item, loaded, emitted, pushes>>

NextGen == TrainStep \/ TrainDone \/ GenStart \/ GenStep

SpecGen == InitGen /\ [][NextGen]_vars

\* main runs its loops to their end
FairSpecGen == SpecGen /\ WF_vars(NextGen)

\* C4: the output never grows past the limit, and the loop ends.
C4_LimitRespected == [](Len(buffer) <= limit) /\ <>(pc = "done")

\* the loop ended on the limit, with a table to draw from still at hand
C4_Witness ==
    /\ pc = "done"
    /\ limit > 0
    /\ Len(buffer) = limit
    /\ context \in DOMAIN model
    /\ FreqSum(variant, model[context]) > 0

\* C5: when the loop ends below the limit, the context, which is the fold
\* of the bytes put out, is absent from the model or has a table whose
\* counts sum to 0; and on an empty model nothing is put out.
C5_DeadEnd ==
    pc = "done" =>
        /\ Len(buffer) < limit =>
              /\ context = PackBE(SubSeq(buffer, Max(1, Len(buffer) - 7), Len(buffer)))
              /\ \/ context \notin DOMAIN model
                 \/ FreqSum(variant, model[context]) = 0
        /\ DOMAIN model = {} => buffer = <<>>

\* the loop ended below the limit after it put something out
C5_Witness ==
    /\ pc = "done"
    /\ Len(buffer) > 0
    /\ Len(buffer) < limit
    /\ context \notin DOMAIN model

\* C10: a byte x appended while the context is c makes (c, x) one of the
\* pairs Slicer emitted in training, and x a byte with a nonzero count in
\* the table of c.
C10_TrainedTransitions ==
    [][(pc = "gen" /\ Len(buffer') = Len(buffer) + 1) =>
          LET x == buffer'[Len(buffer')]
          IN  /\ \E i \in 1..Len(emitted) : emitted[i] = <<context, x>>
              /\ context \in DOMAIN model
              /\ FreqCount(variant, model[context], x) > 0]_vars

\* two bytes generated from dense tables, the second in a context other
\* than the first
C10_Witness ==
    /\ variant = "dense"
    /\ Len(buffer) = 2
    /\ buffer[1] # 0
    /\ \E i \in 1..Len(emitted) : emitted[i] = <<PackBE(<<buffer[1]>>), buffer[2]>>

---------------------------------------------------------------------------
(* SpecSerial: carrotson.rs train <INPUT> <OUTPUT>, then the file, whole   *)
(* or cut short, read back as gen <FILE> does                              *)

SerBytes == {0, 1}
MaxSerLen == 3
MaxPerm == 3
MaxCut == 64

\* an input that puts every byte value behind the context 0: byte 0, then
\* for b = 1..255 the byte b and eight zero bytes
WideInput ==
    [i \in 1..(1 + 255 * 9) |->
        IF i = 1 THEN 0
        ELSE IF (i - 2) % 9 = 0 THEN 1 + (i - 2) \div 9 ELSE 0]

\* the members of the set S of numbers that lie in lo..hi, ascending
RECURSIVE Ascending(_, _, _)
Ascending(S, lo, hi) ==
    IF lo > hi THEN <<>>
    ELSE IF lo = hi THEN (IF lo \in S THEN <<lo>> ELSE <<>>)
    ELSE LET mid == (lo + hi) \div 2
         IN  Ascending(S, lo, mid) \o Ascending(S, mid + 1, hi)

\* the contexts of the model in the order training inserted them
InsertionOrder ==
    LET firsts == {i \in 1..Len(emitted) :
                      \A j \in 1..(i - 1) : emitted[j][1] # emitted[i][1]}
        at == Ascending(firsts, 1, Len(emitted))
    IN  [k \in 1..Len(at) |-> emitted[at[k]][1]]

Reverse(s) == [k \in 1..Len(s) |-> s[Len(s) + 1 - k]]

\* HashMap::iter visits the keys in an order of its own.  The orders tried:
\* insertion order and its reverse, and every order of a model of at most
\* MaxPerm contexts.
IterOrders ==
    {InsertionOrder, Reverse(InsertionOrder)}
        \cup IF Cardinality(DOMAIN model) <= MaxPerm
             THEN {o \in [1..Cardinality(DOMAIN model) -> DOMAIN model] :
                      \A i, j \in DOMAIN o : i # j => o[i] # o[j]}
             ELSE {}

InitSerial ==
    /\ variant = "sparse"
    /\ bytes \in SeqsUpTo(SerBytes, MaxSerLen) \cup {WideInput}
    /\ window = Zero64 /\ cursor = 0 /\ item = None /\ emitted = <<>>
    /\ model = ModelNew
    /\ pc = "train" /\ calls = 0
    /\ NoFreq /\ NoFile /\ NoGen

\* the rounds of `for (context, next) in Slicer { model.push(context, next) }`
\* that take the bytes lo..hi of the input, entered in the state st: the
\* slicer's window, the model, and the pairs the slicer has returned
RECURSIVE TrainRange(_, _, _, _, _)
TrainRange(v, input, st, lo, hi) ==
    IF lo > hi THEN st
    ELSE IF lo = hi
    THEN [window  |-> SlicerWindow(st.window, input[lo]),
          model   |-> ModelPush(v, st.model, st.window, input[lo]),
          emitted |-> Append(st.emitted, SlicerItem(st.window, input[lo]))]
    ELSE Bind((lo + hi) \div 2, LAMBDA mid :
         Bind(TrainRange(v, input, st, lo, mid), LAMBDA half :
              TrainRange(v, input, half, mid + 1, hi)))

\* the training loop, run to its end
Train ==
    /\ pc = "train"
    /\ \E end \in {TrainRange(variant, bytes,
                               [window |-> window, model |-> model,
                                emitted |-> emitted],
                               cursor + 1, Len(bytes))} :
           /\ window' = end.window
           /\ model' = end.model
           /\ emitted' = end.emitted
    /\ cursor' = Len(bytes)
    /\ item' = None
    /\ pc' = "trained"
    /\ UNCHANGED <<variant, freq, bytes, file, lcg, context, buffer, limit,
                   ret, loaded, pushes, calls>>

\* model.write_to(&mut io::BufWriter::new(output_file))
Save ==
    /\ pc = "trained"
    /\ \E order \in IterOrders : file' = ModelWriteTo(model, order)
    /\ pc' = "saved"
    /\ UNCHANGED <<variant, bytes, window, cursor, model, freq, lcg, context,
                   buffer, limit, item, ret, loaded, emitted, pushes, calls>>

\* the file loses its end: the first n bytes stay, at most MaxCut are lost
Truncate(n) ==
    /\ pc = "saved"
    /\ n < Len(file)
    /\ n >= Len(file) - MaxCut
    /\ file' = SubSeq(file, 1, n)
    /\ pc' = "cut"
    /\ UNCHANGED <<variant, bytes, window, cursor, model, freq, lcg, context,
                   buffer, limit, item, ret, loaded, emitted, pushes, calls>>

\* Model::read_from(&mut io::BufReader::with_capacity(.., file))
Load ==
    /\ pc \in {"saved", "cut"}
    /\ loaded' = ModelReadFrom(file)
    /\ pc' = IF pc = "saved" THEN "loaded" ELSE "loadedcut"
    /\ UNCHANGED <<variant, bytes, window, cursor, model, freq, file, lcg,
                   context, buffer, limit, item, ret, emitted, pushes, calls>>

NextSerial ==
    \/ Train
    \/ Save
    \/ \E n \in 0..Len(file) : Truncate(n)
    \/ Load

SpecSerial == InitSerial /\ [][NextSerial]_vars

\* C1: a model of at least one context, written and read back, comes back
\* as it was: the same contexts, each with the same entries in the same
\* order.
C1_RoundTrip ==
    (pc = "loaded" /\ DOMAIN model # {}) => (loaded.ok /\ loaded.val = model)

\* C8: reading a strict prefix of a written model file fails.
C8_TruncationDetected == pc = "loadedcut" => ~loaded.ok

=============================================================================
